---- MODULE Spec2Model ----
(***************************************************************************)
(* State-machine model of EnclosureStore                                   *)
(* (src/app/pages/system/enclosure/services/enclosure.store.ts).           *)
(*                                                                         *)
(* The store is an @ngrx/component-store: a state object, synchronous      *)
(* updaters and two effects (initiate, update) that each switchMap onto a  *)
(* remote call.  Every action below is one handler run to completion: the  *)
(* JavaScript event loop never interleaves two handlers.                   *)
(***************************************************************************)
EXTENDS Integers, Sequences, FiniteSets, TLC

\* ------------------------------------------------------------------ bounds
MaxCalls == 2          \* remote calls issued over one store's lifetime
MaxSubscribers == 2    \* subscriber ids the notifier hands out

\* ------------------------------------------------------------ data domain
Undefined == "undefined"      \* the JavaScript value undefined

Pools == "Pools"
EnclosureViews == {Pools, "Status"}
EnclosureSides == {"Rear"}

\* a DashboardEnclosure: its id, its label and (by name) its element collections
EnclosureA == [id |-> "a", label |-> "A", elements |-> "elementsOfA"]
EnclosureB == [id |-> "b", label |-> "B", elements |-> "elementsOfB"]

\* an array element that is undefined
UndefinedEnclosure == [id |-> Undefined, label |-> Undefined, elements |-> Undefined]

\* what webui.enclosure.dashboard may answer
DashboardPayloads == {<< >>, <<EnclosureA, EnclosureB>>}

\* arguments the callers pass
EnclosureIds == {"a", "b", "zz"}
Labels == {"renamed"}
SlotArgs == {"slot1"}

\* ------------------------------------------------------------------- state
VARIABLES
    enclosures,               \* state.enclosures: the array's elements 0..length-1
    enclosuresMinus1,         \* state.enclosures[-1]: the array object's "-1" property
    isLoading,
    selectedEnclosureIndex,
    selectedSlot,
    selectedView,
    selectedSide,
    destroyed,                \* ngOnDestroy ran: state subject completed, destroy$ fired
    disksUpdateSubscriptionId,\* 0 is undefined
    subscribers,              \* DisksUpdateService: ids of the registered subjects
    uuidSeq,                  \* DisksUpdateService: ids handed out so far
    listening,                \* ids whose diskUpdatesTrigger$ still has the store's observer
    calls,                    \* WebSocketService: the effect that issued call 1, 2, ...
    pendingCalls,             \* WebSocketService: ids of the calls not answered yet
    initiateCall,             \* initiate's switchMap: call of its inner subscription, 0 if none
    initiatePhase,            \* "idle" | "pending" (awaiting the answer) | "delaying" (delay(100) runs)
    updateCall,               \* update's switchMap: call of its inner subscription, 0 if none
    errorReported,            \* errorHandler.catchError() has been handed an error
    lastOp                    \* the handler that ran last

state == <<enclosures, enclosuresMinus1, isLoading, selectedEnclosureIndex,
           selectedSlot, selectedView, selectedSide>>
listener == <<disksUpdateSubscriptionId, subscribers, uuidSeq, listening>>
effects == <<calls, pendingCalls, initiateCall, initiatePhase, updateCall>>
vars == <<state, destroyed, listener, effects, errorReported, lastOp>>

\* initialState, as a record of the modelled fields
initialState ==
    [enclosures |-> << >>, enclosuresMinus1 |-> UndefinedEnclosure, isLoading |-> TRUE,
     selectedEnclosureIndex |-> 0, selectedSlot |-> Undefined,
     selectedView |-> Pools, selectedSide |-> Undefined]

\* the current state object
Current ==
    [enclosures |-> enclosures, enclosuresMinus1 |-> enclosuresMinus1,
     isLoading |-> isLoading, selectedEnclosureIndex |-> selectedEnclosureIndex,
     selectedSlot |-> selectedSlot, selectedView |-> selectedView,
     selectedSide |-> selectedSide]

\* a state subject that accepts writes after the store's teardown
NextStateNeverStopped(stopped, old, new) == new

\* ComponentStore: the state subject takes a new state only until ngOnDestroy
\* completes it
NextState(stopped, old, new) == IF stopped THEN old ELSE new

\* setState / patchState / an updater's return value reaching the state subject
Write(stopped, new) ==
    LET s == NextState(stopped, Current, new) IN
    /\ enclosures' = s.enclosures
    /\ enclosuresMinus1' = s.enclosuresMinus1
    /\ isLoading' = s.isLoading
    /\ selectedEnclosureIndex' = s.selectedEnclosureIndex
    /\ selectedSlot' = s.selectedSlot
    /\ selectedView' = s.selectedView
    /\ selectedSide' = s.selectedSide

Init ==
    /\ enclosures = initialState.enclosures
    /\ enclosuresMinus1 = initialState.enclosuresMinus1
    /\ isLoading = initialState.isLoading
    /\ selectedEnclosureIndex = initialState.selectedEnclosureIndex
    /\ selectedSlot = initialState.selectedSlot
    /\ selectedView = initialState.selectedView
    /\ selectedSide = initialState.selectedSide
    /\ destroyed = FALSE
    /\ disksUpdateSubscriptionId = 0
    /\ subscribers = {}
    /\ uuidSeq = 0
    /\ listening = {}
    /\ calls = << >>
    /\ pendingCalls = {}
    /\ initiateCall = 0
    /\ initiatePhase = "idle"
    /\ updateCall = 0
    /\ errorReported = FALSE
    /\ lastOp = "constructor"

\* ------------------------------------------------------------ the effects

\* a finalize that never runs
FinalizedNever(s, innerEnded) == s

\* finalize(() => patchState({ isLoading: false })): runs when an inner
\* subscription of initiate ends, by completion or by unsubscription
Finalized(s, innerEnded) == IF innerEnded THEN [s EXCEPT !.isLoading = FALSE] ELSE s

\* mergeMap in place of switchMap: every inner subscription stays subscribed
ObservedMergeMap(call) == TRUE

\* switchMap: only the inner subscription of the effect's latest trigger is
\* still subscribed to its call
Observed(call) ==
    \/ calls[call] = "initiate" /\ call = initiateCall
    \/ calls[call] = "update" /\ call = updateCall

\* errorHandler.catchError(): the error is reported and the stream completes
\* without a value (the error is not fatal and nothing is emitted in its place)
CaughtErrorEmits == FALSE

\* an effect whose subscription an uncaught error of a remote call has ended
AcceptingUntilError == ~destroyed /\ ~errorReported

\* an effect takes triggers while its subscription lives: catchError sits on
\* the inner stream, inside switchMap, so no error of a remote call ends it;
\* only the teardown does
Accepting == ~destroyed

\* update's tap with the state reset that initiate makes
UpdatePatchedWithReset(s, payload) ==
    [initialState EXCEPT !.enclosures = payload]

\* update's tap: patchState({ enclosures })
UpdatePatched(s, payload) ==
    [s EXCEPT !.enclosures = payload, !.enclosuresMinus1 = UndefinedEnclosure]

\* initiate(): tap resets the state, then switchMap drops the previous inner
\* subscription (its finalize runs) and subscribes to a new remote call
Initiate ==
    /\ Len(calls) < MaxCalls
    /\ lastOp' = "initiate"
    /\ IF ~Accepting
       THEN UNCHANGED <<state, effects>>
       ELSE /\ Write(destroyed, Finalized(initialState, initiatePhase # "idle"))
            /\ calls' = Append(calls, "initiate")
            /\ pendingCalls' = pendingCalls \cup {Len(calls) + 1}
            /\ initiateCall' = Len(calls) + 1
            /\ initiatePhase' = "pending"
            /\ UNCHANGED updateCall
    /\ UNCHANGED <<destroyed, listener, errorReported>>

\* n synchronous update() calls: each switchMap drops the previous inner
\* subscription and subscribes to a new remote call; the state is not touched.
\* After the teardown the effect has no observer left
UpdateTimes(n) ==
    IF ~Accepting \/ n = 0
    THEN UNCHANGED effects
    ELSE /\ calls' = calls \o [i \in 1..n |-> "update"]
         /\ pendingCalls' = pendingCalls \cup {Len(calls) + i : i \in 1..n}
         /\ updateCall' = Len(calls) + n
         /\ UNCHANGED <<initiateCall, initiatePhase>>

\* update()
Update ==
    /\ Len(calls) < MaxCalls
    /\ lastOp' = "update"
    /\ UpdateTimes(1)
    /\ UNCHANGED <<state, destroyed, listener, errorReported>>

\* the answer to a call initiate still observes: tap patches enclosures, then
\* delay(100) holds the value and the completion back
InitiateSuccess(call, payload) ==
    /\ call \in pendingCalls
    /\ calls[call] = "initiate"
    /\ Observed(call)
    /\ lastOp' = "initiateSuccess"
    /\ Write(destroyed, [Current EXCEPT !.enclosures = payload, !.enclosuresMinus1 = UndefinedEnclosure])
    /\ pendingCalls' = pendingCalls \ {call}
    /\ initiatePhase' = "delaying"
    /\ UNCHANGED <<destroyed, listener, calls, initiateCall, updateCall, errorReported>>

\* a call initiate still observes fails: the stream completes with no value
\* after errorHandler.catchError(), so delay(100), which holds back values and
\* completes once none is left, completes at once, and finalize runs
InitiateFailure(call) ==
    /\ call \in pendingCalls
    /\ calls[call] = "initiate"
    /\ Observed(call)
    /\ lastOp' = "initiateFailure"
    /\ pendingCalls' = pendingCalls \ {call}
    /\ IF CaughtErrorEmits
       THEN /\ initiatePhase' = "delaying"
            /\ UNCHANGED <<state, initiateCall>>
       ELSE /\ Write(destroyed, Finalized(Current, TRUE))
            /\ initiateCall' = 0
            /\ initiatePhase' = "idle"
    /\ errorReported' = TRUE
    /\ UNCHANGED <<destroyed, listener, calls, updateCall>>

\* delay(100) elapses: the value and the completion pass, finalize runs
DelayElapsed ==
    /\ initiatePhase = "delaying"
    /\ lastOp' = "delayElapsed"
    /\ Write(destroyed, Finalized(Current, TRUE))
    /\ initiateCall' = 0
    /\ initiatePhase' = "idle"
    /\ UNCHANGED <<destroyed, listener, calls, pendingCalls, updateCall, errorReported>>

\* the answer to a call update still observes: tap patches enclosures
UpdateSuccess(call, payload) ==
    /\ call \in pendingCalls
    /\ calls[call] = "update"
    /\ Observed(call)
    /\ lastOp' = "updateSuccess"
    /\ Write(destroyed, UpdatePatched(Current, payload))
    /\ pendingCalls' = pendingCalls \ {call}
    /\ updateCall' = IF call = updateCall THEN 0 ELSE updateCall
    /\ UNCHANGED <<destroyed, listener, calls, initiateCall, initiatePhase, errorReported>>

\* a call update still observes fails: the error is reported, nothing is written
UpdateFailure(call) ==
    /\ call \in pendingCalls
    /\ calls[call] = "update"
    /\ Observed(call)
    /\ lastOp' = "updateFailure"
    /\ pendingCalls' = pendingCalls \ {call}
    /\ updateCall' = IF call = updateCall THEN 0 ELSE updateCall
    /\ errorReported' = TRUE
    /\ UNCHANGED <<state, destroyed, listener, calls, initiateCall, initiatePhase>>

\* the answer (either outcome) to a call whose inner subscription switchMap or
\* the teardown has dropped: nothing observes it
StaleResponse(call) ==
    /\ call \in pendingCalls
    /\ ~Observed(call)
    /\ lastOp' = "staleResponse"
    /\ pendingCalls' = pendingCalls \ {call}
    /\ UNCHANGED <<state, destroyed, listener, calls, initiateCall, initiatePhase, updateCall,
                   errorReported>>

\* ------------------------------------------------- the disk-update listener

\* a guard that lets every call subscribe
ShouldSubscribeAlways(subscriptionId) == TRUE

\* if (!this.disksUpdateSubscriptionId)
ShouldSubscribe(subscriptionId) == subscriptionId = 0

\* DisksUpdateService.addSubscriber: registers the subject under a fresh id
AddSubscriber(id) == subscribers \cup {id}

\* DisksUpdateService.removeSubscriber: drops the id's registration; an id that
\* is not registered (or undefined) is tolerated
RemoveSubscriber(id) == subscribers \ {id}

\* addListenerForDiskUpdates(): the new subject is registered with the
\* notifier and observed until the store is destroyed
AddListenerForDiskUpdates ==
    /\ lastOp' = "addListenerForDiskUpdates"
    /\ IF ShouldSubscribe(disksUpdateSubscriptionId)
       THEN /\ uuidSeq < MaxSubscribers
            /\ uuidSeq' = uuidSeq + 1
            /\ subscribers' = AddSubscriber(uuidSeq + 1)
            /\ disksUpdateSubscriptionId' = uuidSeq + 1
            /\ listening' = listening \cup {uuidSeq + 1}
       ELSE UNCHANGED listener
    /\ UNCHANGED <<state, destroyed, effects, errorReported>>

\* removeListenerForDiskUpdates(): the stored id is handed to the notifier and
\* kept
RemoveListenerForDiskUpdates ==
    /\ lastOp' = "removeListenerForDiskUpdates"
    /\ subscribers' = RemoveSubscriber(disksUpdateSubscriptionId)
    /\ UNCHANGED <<disksUpdateSubscriptionId, uuidSeq, listening>>
    /\ UNCHANGED <<state, destroyed, effects, errorReported>>

\* the update() calls one notification makes: one per registered subject that
\* the store still observes
Triggered == Cardinality(subscribers \cap listening)

\* the notifier fires: it emits on every registered subject
DiskUpdateNotification ==
    /\ subscribers # {}
    /\ ~Accepting \/ Len(calls) + Triggered <= MaxCalls
    /\ lastOp' = "diskUpdateNotification"
    /\ UpdateTimes(Triggered)
    /\ UNCHANGED <<state, destroyed, listener, errorReported>>

\* ------------------------------------------------------------ the updaters

\* Array.prototype.findIndex with (enclosure) => enclosure.id === id, 0-based:
\* the position of the first match, -1 without one
FindIndex(items, id) ==
    IF \E i \in 1..Len(items) : items[i].id = id
    THEN (CHOOSE i \in 1..Len(items) :
            /\ items[i].id = id
            /\ \A j \in 1..(i - 1) : items[j].id # id) - 1
    ELSE -1

\* the findIndex callback reads enclosure.id: it raises a TypeError when it
\* reaches an element that is undefined before it finds a match
FindIndexThrows(items, id) ==
    \E i \in 1..Len(items) :
        /\ items[i] = UndefinedEnclosure
        /\ \A j \in 1..(i - 1) : items[j].id # id

\* { ...enclosure, label }: spreading undefined adds nothing
WithLabel(enclosure, label) == [enclosure EXCEPT !.label = label]

\* copy[index] = value on the spread copy, for index >= 0: an index past the end
\* lengthens the array, the elements in between are undefined
SetAt(items, index, value) ==
    [i \in 1..(IF index + 1 > Len(items) THEN index + 1 ELSE Len(items)) |->
        IF i = index + 1 THEN value
        ELSE IF i <= Len(items) THEN items[i]
        ELSE UndefinedEnclosure]

\* selectedEnclosure: state.enclosures[state.selectedEnclosureIndex], which
\* is undefined where the array holds nothing at that index
SelectedEnclosure(s) ==
    IF s.selectedEnclosureIndex = -1 THEN s.enclosuresMinus1
    ELSE IF s.selectedEnclosureIndex < Len(s.enclosures)
         THEN s.enclosures[s.selectedEnclosureIndex + 1]
         ELSE UndefinedEnclosure

\* selectedEnclosure() is undefined
NoSelectedEnclosure(s) == SelectedEnclosure(s) = UndefinedEnclosure

\* EnclosureDiskStatus
Online == "Online"
Faulted == "Faulted"

\* a slot whose pool_info is null
NoPoolInfo == [pool_name |-> Undefined, disk_status |-> Undefined]

\* Object.values(elements['Array Device Slot']) of the enclosures the dashboard
\* answers with, in slot order; an enclosure without elements has none
ArrayDeviceSlots(elements) ==
    CASE elements = "elementsOfA" ->
           << [number |-> "1", pool_info |-> [pool_name |-> "tank", disk_status |-> Faulted]],
              [number |-> "2", pool_info |-> [pool_name |-> "tank", disk_status |-> Online]],
              [number |-> "3", pool_info |-> NoPoolInfo],
              [number |-> "4", pool_info |-> [pool_name |-> "data", disk_status |-> Online]] >>
      [] elements = "elementsOfB" ->
           << [number |-> "1", pool_info |-> [pool_name |-> "data", disk_status |-> Online]],
              [number |-> "2", pool_info |-> [pool_name |-> "data", disk_status |-> Faulted]] >>
      [] OTHER -> << >>

\* Object.values(elements['SAS Expander'])
SasExpanders(elements) ==
    CASE elements = "elementsOfA" -> << "expander0" >>
      [] OTHER -> << >>

\* selectedEnclosureSlots: selectedEnclosure()?.elements?.[ArrayDeviceSlot] || {}
SelectedEnclosureSlots(s) == ArrayDeviceSlots(SelectedEnclosure(s).elements)

\* Map.prototype.set on a map kept as its entries in insertion order: a key
\* already present keeps its place and takes the new value
MapSet(map, key, value) ==
    IF \E i \in 1..Len(map) : map[i][1] = key
    THEN [i \in 1..Len(map) |-> IF map[i][1] = key THEN <<key, value>> ELSE map[i]]
    ELSE Append(map, <<key, value>>)

\* new Map(entries): the entries are set one after the other
RECURSIVE NewMap(_)
NewMap(entries) ==
    IF Len(entries) = 0
    THEN << >>
    ELSE MapSet(NewMap(SubSeq(entries, 1, Len(entries) - 1)),
                entries[Len(entries)][1], entries[Len(entries)][2])

\* [...map.values()]
MapValues(map) == [i \in 1..Len(map) |-> map[i][2]]

\* poolsInfo of the tile view
PoolsInfo(s) ==
    LET HasPoolInfo(slot) == slot.pool_info # NoPoolInfo
        slots == SelectSeq(SelectedEnclosureSlots(s), HasPoolInfo)
    IN MapValues(NewMap([i \in 1..Len(slots) |->
                            <<slots[i].pool_info.pool_name, slots[i].pool_info>>]))

\* expanders of the tile view dereferences selectedEnclosure() unguarded
ExpandersThrows(s) == NoSelectedEnclosure(s)

\* expanders of the tile view, where it does not throw
Expanders(s) == SasExpanders(SelectedEnclosure(s).elements)

\* unhealthyPoolsInfo of the tile view
UnhealthyPoolsInfo(s) ==
    LET NotOnline(info) == info.disk_status # Online
    IN SelectSeq(PoolsInfo(s), NotOnline)

\* failedDisks of the tile view
FailedDisks(s) ==
    LET IsFaulted(slot) == slot.pool_info.disk_status = Faulted
    IN SelectSeq(SelectedEnclosureSlots(s), IsFaulted)

\* a selectEnclosure that leaves the view as it is
SelectEnclosureKeepsView(s, id) ==
    LET index == FindIndex(s.enclosures, id) IN
    IF FindIndexThrows(s.enclosures, id) \/ index = s.selectedEnclosureIndex
    THEN s
    ELSE [s EXCEPT !.selectedEnclosureIndex = index,
                   !.selectedSlot = Undefined,
                   !.selectedSide = Undefined]

\* a selectEnclosure without the early return
SelectEnclosureAlwaysResets(s, id) ==
    IF FindIndexThrows(s.enclosures, id)
    THEN s
    ELSE [s EXCEPT !.selectedEnclosureIndex = FindIndex(s.enclosures, id),
                   !.selectedSlot = Undefined,
                   !.selectedSide = Undefined,
                   !.selectedView = Pools]

\* the updater of selectEnclosure: the state it returns for state s; an
\* updater that raises leaves the state as it was
SelectEnclosureUpdater(s, id) ==
    LET index == FindIndex(s.enclosures, id) IN
    IF FindIndexThrows(s.enclosures, id) \/ index = s.selectedEnclosureIndex
    THEN s
    ELSE [s EXCEPT !.selectedEnclosureIndex = index,
                   !.selectedSlot = Undefined,
                   !.selectedSide = Undefined,
                   !.selectedView = Pools]

\* selectEnclosure(id)
SelectEnclosure(id) ==
    /\ lastOp' = "selectEnclosure"
    /\ Write(destroyed, SelectEnclosureUpdater(Current, id))
    /\ UNCHANGED <<destroyed, listener, effects, errorReported>>

\* a rename that labels every enclosure
RenameEveryEnclosure(s, label) ==
    [s EXCEPT !.enclosures = [i \in 1..Len(s.enclosures) |-> WithLabel(s.enclosures[i], label)]]

\* the updater of renameSelectedEnclosure: the copy made by the spread holds
\* the elements only, so the copy's [-1] is undefined before the assignment
RenameUpdater(s, label) ==
    IF s.selectedEnclosureIndex = -1
    THEN [s EXCEPT !.enclosuresMinus1 = WithLabel(UndefinedEnclosure, label)]
    ELSE [s EXCEPT
            !.enclosures = SetAt(s.enclosures, s.selectedEnclosureIndex,
                WithLabel(IF s.selectedEnclosureIndex < Len(s.enclosures)
                          THEN s.enclosures[s.selectedEnclosureIndex + 1]
                          ELSE UndefinedEnclosure, label)),
            !.enclosuresMinus1 = UndefinedEnclosure]

\* renameSelectedEnclosure(label)
RenameSelectedEnclosure(label) ==
    /\ lastOp' = "renameSelectedEnclosure"
    /\ Write(destroyed, RenameUpdater(Current, label))
    /\ UNCHANGED <<destroyed, listener, effects, errorReported>>

\* selectSlot(slot)
SelectSlot(slot) ==
    /\ lastOp' = "selectSlot"
    /\ Write(destroyed, [Current EXCEPT !.selectedSlot = slot])
    /\ UNCHANGED <<destroyed, listener, effects, errorReported>>

\* selectView(view)
SelectView(view) ==
    /\ lastOp' = "selectView"
    /\ Write(destroyed, [Current EXCEPT !.selectedView = view])
    /\ UNCHANGED <<destroyed, listener, effects, errorReported>>

\* a selectSide that keeps the selected slot
SelectSideKeepsSlot(s, side) ==
    IF side = s.selectedSide THEN s ELSE [s EXCEPT !.selectedSide = side]

\* the updater of selectSide
SelectSideUpdater(s, side) ==
    IF side = s.selectedSide
    THEN s
    ELSE [s EXCEPT !.selectedSide = side, !.selectedSlot = Undefined]

\* selectSide(side)
SelectSide(side) ==
    /\ lastOp' = "selectSide"
    /\ Write(destroyed, SelectSideUpdater(Current, side))
    /\ UNCHANGED <<destroyed, listener, effects, errorReported>>

\* ------------------------------------------------------------ the teardown

\* ngOnDestroy: the state subject completes, then destroy$ fires: both effects
\* are unsubscribed (initiate's finalize runs against the completed subject)
\* and untilDestroyed ends the store's observation of its trigger subjects.
\* Remote calls already issued stay in flight; the notifier is not told
Destroy ==
    /\ ~destroyed
    /\ lastOp' = "destroy"
    /\ destroyed' = TRUE
    /\ Write(TRUE, Finalized(Current, initiatePhase # "idle"))
    /\ initiateCall' = 0
    /\ initiatePhase' = "idle"
    /\ updateCall' = 0
    /\ listening' = {}
    /\ UNCHANGED <<calls, pendingCalls, disksUpdateSubscriptionId, subscribers, uuidSeq,
                   errorReported>>

Next ==
    \/ Initiate
    \/ Update
    \/ \E call \in pendingCalls, payload \in DashboardPayloads : InitiateSuccess(call, payload)
    \/ \E call \in pendingCalls : InitiateFailure(call)
    \/ DelayElapsed
    \/ \E call \in pendingCalls, payload \in DashboardPayloads : UpdateSuccess(call, payload)
    \/ \E call \in pendingCalls : UpdateFailure(call)
    \/ \E call \in pendingCalls : StaleResponse(call)
    \/ AddListenerForDiskUpdates
    \/ RemoveListenerForDiskUpdates
    \/ DiskUpdateNotification
    \/ \E id \in EnclosureIds : SelectEnclosure(id)
    \/ \E label \in Labels : RenameSelectedEnclosure(label)
    \/ \E slot \in SlotArgs \cup {Undefined} : SelectSlot(slot)
    \/ \E view \in EnclosureViews : SelectView(view)
    \/ \E side \in EnclosureSides \cup {Undefined} : SelectSide(side)
    \/ Destroy

Spec == Init /\ [][Next]_vars

\* the event loop runs a due timer: the delay(100) of a load always elapses
LiveSpec == Spec /\ WF_vars(DelayElapsed)

\* ------------------------------------------------------------------ claims

\* the update() call started last, 0 before the first
LatestUpdate ==
    IF \E i \in 1..Len(calls) : calls[i] = "update"
    THEN CHOOSE i \in 1..Len(calls) :
            /\ calls[i] = "update"
            /\ \A j \in (i + 1)..Len(calls) : calls[j] # "update"
    ELSE 0

\* the calls answered in this step
Answered == pendingCalls \ pendingCalls'

\* C1: selectedEnclosureIndex is a valid index into enclosures, or 0 when
\* enclosures is empty, in every reachable state.
C1_IndexValid ==
    IF Len(enclosures) = 0
    THEN selectedEnclosureIndex = 0
    ELSE selectedEnclosureIndex \in 0..(Len(enclosures) - 1)

\* C2: isLoading goes from true to false only in the step in which the
\* delay(100) of a load elapses, whatever the outcome of the remote call.
C2_ClearedOnlyAfterDelay ==
    [][(isLoading /\ ~isLoading') => (initiatePhase = "delaying" /\ lastOp' = "delayElapsed")]_vars

C4_SupersededLoadKeepsLoading ==
    [][(initiatePhase # "idle" /\ initiateCall' \notin {0, initiateCall}) => isLoading']_vars

\* C5: the answer to an update() call that is not the most recently started
\* update() call never changes the state.
C5_OnlyLatestUpdateApplied ==
    [][\A call \in Answered :
          (calls[call] = "update" /\ call # LatestUpdate) => UNCHANGED state]_vars

C5_Witness ==
    /\ lastOp = "staleResponse"
    /\ ~destroyed
    /\ calls = <<"update", "update">>
    /\ pendingCalls = {2}
    /\ updateCall = 2

\* C6: across initiate() and update(), the answer to a call that is not the
\* most recently started call (of either operation) never changes enclosures.
C6_SwitchToLatestAcrossOperations ==
    [][\A call \in Answered : call # Len(calls) => enclosures' = enclosures]_vars

\* C7: the notifier never holds more than one subscription of the store, and
\* while the store lives a notification makes exactly one update() call.
C7_OneSubscriptionOneUpdate ==
    /\ Cardinality(subscribers) <= 1
    /\ (~destroyed /\ subscribers # {}) => Triggered = 1

C7_Witness ==
    /\ lastOp = "diskUpdateNotification"
    /\ ~destroyed
    /\ Cardinality(subscribers) = 1
    /\ updateCall = Len(calls)
    /\ updateCall \in pendingCalls

\* C8: after a call of addListenerForDiskUpdates() on a live store, the store
\* is subscribed to the notifier and observes the subscription.
C8_AddListenerSubscribes ==
    (lastOp = "addListenerForDiskUpdates" /\ ~destroyed)
        => (subscribers \cap listening # {})

\* C9: from the teardown on, no step changes the state or issues a remote
\* call: no notification triggers update(), no answer is applied.
C9_NoChangeAfterDestroy ==
    [][destroyed' => UNCHANGED <<state, calls>>]_vars

C9_Witness ==
    /\ destroyed
    /\ lastOp = "staleResponse"
    /\ subscribers # {}

\* C10: the teardown leaves no subscription of the store registered with the
\* notifier.
C10_TeardownDeregisters ==
    [][(~destroyed /\ destroyed') => subscribers' = {}]_vars

\* the fields of the state other than the enclosures array
selection == <<isLoading, selectedEnclosureIndex, selectedSlot, selectedView, selectedSide>>

\* C11: no step of an update() cycle (the trigger, by a call or by a
\* notification, and the answer, success or failure) changes isLoading,
\* selectedEnclosureIndex, selectedSlot, selectedView or selectedSide; only a
\* success changes anything, and it changes enclosures alone.
C11_UpdateTouchesOnlyEnclosures ==
    [][/\ (lastOp' \in {"update", "diskUpdateNotification", "updateFailure"}) => UNCHANGED state
       /\ (lastOp' = "updateSuccess") => UNCHANGED selection]_vars

C11_Witness ==
    /\ lastOp = "updateSuccess"
    /\ ~destroyed
    /\ ~isLoading
    /\ enclosures = <<EnclosureA, EnclosureB>>
    /\ selectedEnclosureIndex = 1
    /\ selectedSlot = "slot1"
    /\ selectedView = "Status"
    /\ selectedSide = "Rear"

\* C12: on a live store that has reported a failed remote call, update() and
\* initiate() still issue a remote call that their effect observes, and a
\* successful answer still replaces enclosures with the fetched data.
C12_UsableAfterFailure ==
    [][(errorReported /\ ~destroyed) =>
          /\ (lastOp' = "update") =>
                (Len(calls') = Len(calls) + 1 /\ updateCall' = Len(calls'))
          /\ (lastOp' = "initiate") =>
                (Len(calls') = Len(calls) + 1 /\ initiateCall' = Len(calls'))
          /\ (lastOp' \in {"updateSuccess", "initiateSuccess"}) =>
                (enclosures' \in DashboardPayloads /\ Answered # {})]_vars

C12_Witness ==
    /\ errorReported
    /\ ~destroyed
    /\ lastOp = "updateSuccess"
    /\ enclosures = <<EnclosureA, EnclosureB>>

\* C13: a selectEnclosure step that changes selectedEnclosureIndex leaves
\* selectedSlot none, selectedSide undefined and selectedView Pools, and does
\* not change enclosures or isLoading.
C13_SelectionChangeResets ==
    [][(lastOp' = "selectEnclosure" /\ selectedEnclosureIndex' # selectedEnclosureIndex) =>
          /\ selectedSlot' = Undefined
          /\ selectedSide' = Undefined
          /\ selectedView' = Pools
          /\ UNCHANGED <<enclosures, enclosuresMinus1, isLoading>>]_vars

C13_Witness ==
    /\ lastOp = "selectEnclosure"
    /\ ~destroyed
    /\ selectedEnclosureIndex = 1
    /\ enclosures = <<EnclosureA, EnclosureB>>
    /\ ~isLoading

\* C14: in every reachable state and for every id, selectEnclosure(id) with an
\* id that resolves to the selected index returns the state unchanged, and
\* applying selectEnclosure(id) twice yields what applying it once yields.
C14_SelectEnclosureIdempotent ==
    \A id \in EnclosureIds :
        LET once == SelectEnclosureUpdater(Current, id) IN
        /\ (~FindIndexThrows(enclosures, id) /\ FindIndex(enclosures, id) = selectedEnclosureIndex)
              => once = Current
        /\ SelectEnclosureUpdater(once, id) = once

C14_Witness ==
    /\ lastOp = "selectEnclosure"
    /\ ~destroyed
    /\ selectedEnclosureIndex = -1
    /\ selectedSlot = "slot1"
    /\ selectedView = "Status"

\* C15: a selectSide step that leaves selectedSide as it was changes nothing;
\* one that changes it clears selectedSlot and changes no other field; and
\* every step that changes selectedSide leaves selectedSlot none.
C15_SelectSide ==
    [][/\ (lastOp' = "selectSide" /\ selectedSide' = selectedSide) => UNCHANGED state
       /\ (lastOp' = "selectSide" /\ selectedSide' # selectedSide) =>
             /\ selectedSlot' = Undefined
             /\ UNCHANGED <<enclosures, enclosuresMinus1, isLoading,
                            selectedEnclosureIndex, selectedView>>
       /\ (selectedSide' # selectedSide) => selectedSlot' = Undefined]_vars

C15_Witness ==
    /\ lastOp = "selectSide"
    /\ ~destroyed
    /\ selectedSide = "Rear"
    /\ selectedSlot = Undefined
    /\ selectedView = "Status"
    /\ selectedEnclosureIndex = 1

\* C16: a renameSelectedEnclosure step changes none of isLoading,
\* selectedEnclosureIndex, selectedSlot, selectedView, selectedSide, changes no
\* enclosure other than the one at selectedEnclosureIndex, and leaves the id
\* and the elements of the selected enclosure as they were; in a live store
\* the selected enclosure then carries the new label.
C16_RenameChangesLabelOnly ==
    [][(lastOp' = "renameSelectedEnclosure") =>
          /\ UNCHANGED selection
          /\ \A i \in 1..Len(enclosures) :
                (i # selectedEnclosureIndex + 1) => enclosures'[i] = enclosures[i]
          /\ SelectedEnclosure(Current').id = SelectedEnclosure(Current).id
          /\ SelectedEnclosure(Current').elements = SelectedEnclosure(Current).elements
          /\ (~destroyed => SelectedEnclosure(Current').label \in Labels)]_vars

C16_Witness ==
    /\ lastOp = "renameSelectedEnclosure"
    /\ ~destroyed
    /\ selectedEnclosureIndex = 1
    /\ enclosures = <<EnclosureA, [EnclosureB EXCEPT !.label = "renamed"]>>
    /\ selectedSlot = "slot1"

\* the elements of a sequence
Range(seq) == {seq[i] : i \in 1..Len(seq)}

\* C17: in every reachable state poolsInfo holds exactly one descriptor per
\* pool name occurring among the selected enclosure's slots with pool
\* membership, and that descriptor is the one of the first such slot.
C17_FirstOccurrenceWins ==
    LET slots == SelectedEnclosureSlots(Current)
        members == {i \in 1..Len(slots) : slots[i].pool_info # NoPoolInfo}
        names == {slots[i].pool_info.pool_name : i \in members}
        First(name) == CHOOSE i \in members :
                          /\ slots[i].pool_info.pool_name = name
                          /\ \A k \in members : slots[k].pool_info.pool_name = name => i <= k
        info == PoolsInfo(Current)
    IN /\ Len(info) = Cardinality(names)
       /\ {info[j].pool_name : j \in 1..Len(info)} = names
       /\ \A j \in 1..Len(info) : info[j] = slots[First(info[j].pool_name)].pool_info

\* C18: in every reachable state every slot of the selected enclosure whose
\* disk_status is Faulted is in failedDisks, and unhealthyPoolsInfo holds a
\* descriptor with that slot's pool name.
C18_FaultedIsReported ==
    LET slots == SelectedEnclosureSlots(Current) IN
    \A i \in 1..Len(slots) :
        (slots[i].pool_info.disk_status = Faulted) =>
            /\ slots[i] \in Range(FailedDisks(Current))
            /\ \E info \in Range(UnhealthyPoolsInfo(Current)) :
                  info.pool_name = slots[i].pool_info.pool_name

\* C19: a renameSelectedEnclosure step never changes the number of
\* enclosures and leaves no enclosure entry without an id.
C19_RenameKeepsEnclosures ==
    [][(lastOp' = "renameSelectedEnclosure") =>
          /\ Len(enclosures') = Len(enclosures)
          /\ \A i \in 1..Len(enclosures') : enclosures'[i].id # Undefined]_vars

\* C20: in every reachable state the four derivations of the tile view are
\* defined, and they are empty where selectedEnclosureIndex addresses no
\* enclosure.
C20_TilesDefined ==
    /\ ~ExpandersThrows(Current)
    /\ NoSelectedEnclosure(Current) =>
          /\ PoolsInfo(Current) = << >>
          /\ Expanders(Current) = << >>
          /\ UnhealthyPoolsInfo(Current) = << >>
          /\ FailedDisks(Current) = << >>
====
